---- MODULE Spec2Model ----
(***************************************************************************)
(* Model of the title-slugify plugin (src/main.ts): the slug normalizer,   *)
(* the rename policy, the ownership view-mode arbiter and the lifecycle of *)
(* the file-explorer observer.                                             *)
(*                                                                         *)
(* Strings are sequences of characters.  A character is one of the tokens  *)
(* of Chars; each token stands for one class of code points that the       *)
(* regular expressions and the Unicode operations of slugify tell apart.   *)
(***************************************************************************)
EXTENDS Integers, Sequences, FiniteSets, TLC

\* Longest string drawn as an input (a text to slugify, a base name).
MaxLen == 3

\* Longest base name of the vault's file.
MaxNameLen == 2

\* Most renameFile promises in flight at once.
MaxPending == 1

\* Most colorizeFileName callbacks scheduled at once.
MaxTimers == 2

\* Number of markdown files the leaf can show.
MaxFiles == 2

\* Most checkAndSetViewMode callbacks scheduled at once.
MaxViewTimers == 1

\* Most setViewState requests the host has not applied yet.
MaxViewWrites == 1

\* Most MutationObservers created in one run.
MaxObservers == 3

\* Most title elements in the file explorer.
MaxTitles == 2

(***************************************************************************)
(* Characters                                                              *)
(***************************************************************************)
\* "a": a lowercase ASCII letter       "A": an uppercase ASCII letter
\* "1": a digit                        ".", "_", "-": themselves
\* " ", "TAB": white space (both match \s)
\* "U+00E1": a precomposed accented lowercase letter (a with acute)
\* "U+00C1": its uppercase form
\* "U+0301": a combining mark of the range U+0300..U+036F
\* "?": any other character (punctuation, symbols, other scripts)
Chars ==
    {"a", "A", "1", ".", "_", "-", " ", "TAB", "U+00E1", "U+00C1", "U+0301", "?"}

WhiteSpace == {" ", "TAB"}

CombiningMarks == {"U+0301"}

\* The class [a-z0-9._] of isValidSlugRegex.
SlugChars == {"a", "1", ".", "_"}

\* The complement of the class [^a-z0-9\s-._] of slugify: without the u flag
\* "\s-." is the class escape \s, a literal hyphen and a literal dot.
KeptChars == {"a", "1", ".", "_", "-"} \cup WhiteSpace

RECURSIVE StringsOfLen(_, _)
StringsOfLen(alphabet, n) ==
    IF n = 0 THEN {<<>>}
    ELSE {Append(s, c) : s \in StringsOfLen(alphabet, n - 1), c \in alphabet}

\* Every string of at most MaxLen characters.
Strings == UNION {StringsOfLen(Chars, n) : n \in 0..MaxLen}

\* The characters of the base names of the vault's file: one of each class
\* that handleRename treats differently.
NameChars == {"a", ".", "-", " ", "U+00C1", "?"}

\* The base names a file can have; the empty one is the file named ".md".
BaseNames == UNION {StringsOfLen(NameChars, n) : n \in 0..MaxNameLen}

(***************************************************************************)
(* String operations used by slugify                                       *)
(***************************************************************************)
RECURSIVE Flatten(_)
Flatten(ss) == IF ss = <<>> THEN <<>> ELSE Head(ss) \o Flatten(Tail(ss))

LowerOf(c) ==
    CASE c = "A" -> "a"
      [] c = "U+00C1" -> "U+00E1"
      [] OTHER -> c

toLowerCase(s) == [i \in 1..Len(s) |-> LowerOf(s[i])]

RECURSIVE trimStart(_)
trimStart(s) ==
    IF s # <<>> /\ Head(s) \in WhiteSpace THEN trimStart(Tail(s)) ELSE s

RECURSIVE trimEnd(_)
trimEnd(s) ==
    IF s # <<>> /\ s[Len(s)] \in WhiteSpace
    THEN trimEnd(SubSeq(s, 1, Len(s) - 1))
    ELSE s

trim(s) == trimEnd(trimStart(s))

\* Canonical decomposition of one character.
Decompose(c) ==
    CASE c = "U+00E1" -> <<"a", "U+0301">>
      [] c = "U+00C1" -> <<"A", "U+0301">>
      [] OTHER -> <<c>>

normalizeNFD(s) == Flatten([i \in 1..Len(s) |-> Decompose(s[i])])

\* s.replace(/[class]/g, ''): drop every character of the class.
RemoveAll(s, class) == SelectSeq(s, LAMBDA c : c \notin class)

RECURSIVE DropRun(_, _)
DropRun(s, class) ==
    IF s # <<>> /\ Head(s) \in class THEN DropRun(Tail(s), class) ELSE s

\* s.replace(/[class]+/g, '-'): every maximal run of the class becomes one "-".
RECURSIVE ReplaceRuns(_, _)
ReplaceRuns(s, class) ==
    IF s = <<>> THEN <<>>
    ELSE IF Head(s) \in class
         THEN <<"-">> \o ReplaceRuns(DropRun(s, class), class)
         ELSE <<Head(s)>> \o ReplaceRuns(Tail(s), class)

\* The same pipeline with the last two replacements exchanged.
slugifyHyphensFirst(text) ==
    LET lowered  == toLowerCase(text)
        trimmed  == trim(lowered)
        nfd      == normalizeNFD(trimmed)
        unmarked == RemoveAll(nfd, CombiningMarks)
        kept     == RemoveAll(unmarked, Chars \ KeptChars)
        single   == ReplaceRuns(kept, {"-"})
    IN  ReplaceRuns(single, WhiteSpace)

slugify(text) ==
    LET lowered  == toLowerCase(text)
        trimmed  == trim(lowered)
        nfd      == normalizeNFD(trimmed)
        unmarked == RemoveAll(nfd, CombiningMarks)
        kept     == RemoveAll(unmarked, Chars \ KeptChars)
        hyphened == ReplaceRuns(kept, WhiteSpace)
    IN  ReplaceRuns(hyphened, {"-"})

\* isValidSlugRegex.test(name) for /^[a-z0-9._]+(?:-[a-z0-9._]+)*$/, as the
\* automaton of the expression: "start" before the first character, "run"
\* inside [a-z0-9._]+, "sep" right after a hyphen, "fail" on a mismatch.
RegexStep(q, c) ==
    CASE q = "start" -> IF c \in SlugChars THEN "run" ELSE "fail"
      [] q = "run"   -> IF c \in SlugChars THEN "run"
                        ELSE IF c = "-" THEN "sep" ELSE "fail"
      [] q = "sep"   -> IF c \in SlugChars THEN "run" ELSE "fail"
      [] OTHER       -> "fail"

RECURSIVE RegexRun(_, _)
RegexRun(q, s) == IF s = <<>> THEN q ELSE RegexRun(RegexStep(q, Head(s)), Tail(s))

isValidSlug(name) == RegexRun("start", name) = "run"

(***************************************************************************)
(* State                                                                   *)
(***************************************************************************)
VARIABLES
    sPc,         \* slug normalizer: "input", "once", "twice"
    sText,       \* the text given to slugify
    sOut,        \* slugify(sText)
    sOut2,       \* slugify(sOut)
    file,        \* the TFile of the vault: parent folder, basename, extension
    userEvent,   \* the vault's "rename" event for the user's naming is undelivered
    byPlugin,    \* the file got its present path from a move handleRename requested
    pending,     \* paths of the renameFile promises that have not settled yet
    run,         \* what the last handler run (or promise rejection) did
    titles,      \* number of .nav-file-title-content elements in the document
    colorTimers, \* colorizeFileName callbacks scheduled and not yet fired
    loaded,      \* the plugin is enabled: onload has run and onunload has not
    currentUser, \* this.currentUser
    leaf,        \* the workspace leaf: the file its view shows and the view's mode
    viewTimers,  \* files captured by the scheduled checkAndSetViewMode callbacks
    viewWrites,  \* view states given to setViewState and not yet applied
    check,       \* what the last run of checkAndSetViewMode read and did
    container,   \* the document has a .nav-files-container element
    observer,    \* this.observer: 0 for null, else the number of an observer
    observers,   \* every MutationObserver created: is it observing
    layoutWait,  \* the callback given to workspace.onLayoutReady has not run
    styleEls     \* number of style elements with id title-slugify-styles

slugVars == <<sPc, sText, sOut, sOut2>>

renameVars == <<file, userEvent, byPlugin, pending, run>>

domVars == <<titles, colorTimers>>

viewVars == <<currentUser, leaf, viewTimers, viewWrites, check>>

obsVars == <<container, observer, observers, layoutWait, styleEls>>

vars == <<slugVars, renameVars, domVars, loaded, viewVars, obsVars>>

(***************************************************************************)
(* Values of the parts a specification leaves out                          *)
(***************************************************************************)
NoFolder == [exists |-> FALSE, path |-> <<>>]

NoRun == [event |-> "none", calls |-> <<>>, notices |-> <<>>,
          message |-> "", escaped |-> FALSE]

SlugIdle ==
    /\ sPc = "idle"
    /\ sText = <<>>
    /\ sOut = <<>>
    /\ sOut2 = <<>>

RenameIdle ==
    /\ file = [parent |-> NoFolder, basename |-> <<>>, extension |-> <<>>]
    /\ userEvent = FALSE
    /\ byPlugin = FALSE
    /\ pending = <<>>
    /\ run = NoRun

DomIdle ==
    /\ titles = 0
    /\ colorTimers = 0

ObsIdle ==
    /\ container = FALSE
    /\ observer = 0
    /\ observers = <<>>
    /\ layoutWait = FALSE
    /\ styleEls = 0

NoFile == 0

NoCache == [cached |-> FALSE, frontmatter |-> FALSE, hasOwner |-> FALSE, owner |-> ""]

NoCheck == [ran |-> FALSE, enabled |-> TRUE, captured |-> NoFile,
            shown |-> NoFile, observed |-> "none", cache |-> NoCache,
            target |-> "source", writes |-> <<>>, notices |-> <<>>]

ViewIdle ==
    /\ currentUser = ""
    /\ leaf = [file |-> NoFile, mode |-> "none"]
    /\ viewTimers = <<>>
    /\ viewWrites = <<>>
    /\ check = NoCheck

(***************************************************************************)
(* The slug normalizer applied to a text, and again to its own result      *)
(***************************************************************************)
SlugInit ==
    /\ sPc = "input"
    /\ sText \in Strings
    /\ sOut = <<>>
    /\ sOut2 = <<>>
    /\ RenameIdle
    /\ DomIdle
    /\ ViewIdle
    /\ ObsIdle
    /\ loaded = FALSE

Slugify ==
    /\ sPc = "input"
    /\ sOut' = slugify(sText)
    /\ sPc' = "once"
    /\ UNCHANGED <<sText, sOut2, renameVars, domVars, loaded, viewVars, obsVars>>

SlugifyAgain ==
    /\ sPc = "once"
    /\ sOut2' = slugify(sOut)
    /\ sPc' = "twice"
    /\ UNCHANGED <<sText, sOut, renameVars, domVars, loaded, viewVars, obsVars>>

SlugNext == Slugify \/ SlugifyAgain

SpecSlug == SlugInit /\ [][SlugNext]_vars

Range(q) == {q[i] : i \in 1..Len(q)}

\* C1: for every text, a non-empty slugify(text) passes isValidSlugRegex (no
\* leading, trailing or doubled hyphen).
SlugifyYieldsValidSlug ==
    (sPc \in {"once", "twice"} /\ sOut # <<>>) => isValidSlug(sOut)

\* C2: slugify is idempotent: slugify(slugify(text)) = slugify(text).
SlugifyIdempotent == sPc = "twice" => sOut2 = sOut

\* slugify was applied twice to a text that it changes: an accented capital,
\* a tab and a letter became a-a.
SlugifyIdempotentWitness ==
    /\ sPc = "twice"
    /\ sText = <<"U+00C1", "TAB", "a">>
    /\ sOut = <<"a", "-", "a">>
    /\ sOut2 = <<"a", "-", "a">>

(***************************************************************************)
(* The rename policy: handleRename on the vault's rename and modify events *)
(***************************************************************************)
Folders == {NoFolder, [exists |-> TRUE, path |-> <<>>],
            [exists |-> TRUE, path |-> <<"n">>]}

Extensions == {<<>>, <<"m", "d">>}

\* What the host's move can fail with.
Messages == {"Destination file already exists!", "EPERM"}

SlugifiedNotice == <<"File name slugified">>

ErrorNotice(m) == <<"Error: ", m>>

\* file.parent?.path || ""
dirPathOf(f) == IF f.parent.exists THEN f.parent.path ELSE <<>>

\* file.extension ? `.${file.extension}` : ""
extensionOf(f) == IF f.extension # <<>> THEN <<".">> \o f.extension ELSE <<>>

\* The path composed without the extension.
newPathNoExtension(f) ==
    IF dirPathOf(f) # <<>>
    THEN dirPathOf(f) \o <<"/">> \o slugify(f.basename)
    ELSE slugify(f.basename)

newPathOf(f) ==
    LET dirPath   == dirPathOf(f)
        extension == extensionOf(f)
        slugified == slugify(f.basename)
    IN  IF dirPath # <<>>
        THEN dirPath \o <<"/">> \o slugified \o extension
        ELSE slugified \o extension

\* The test of the variant whose class is [a-z0-9], without "." and "_".
needsRenameNoDots(f) ==
    \/ ~isValidSlug(f.basename)
    \/ \E i \in 1..Len(f.basename) : f.basename[i] \in {".", "_"}

\* !isValidSlugRegex.test(file.basename)
needsRename(f) == ~isValidSlug(f.basename)

\* One run of handleRename on file f.  thrown is the message of the error that
\* renameFile throws before it returns a promise, "" when it returns one.
\* calls: the paths given to renameFile; promises: those of them in flight;
\* notices: the Notices shown; timers: the callbacks colorizeFileNames set.
handleRename(f, thrown) ==
    IF f.basename = <<>>
    THEN [calls |-> <<>>, promises |-> <<>>, notices |-> <<>>, timers |-> 0]
    ELSE IF needsRename(f)
    THEN IF thrown # ""
         THEN [calls |-> <<newPathOf(f)>>, promises |-> <<>>,
               notices |-> <<ErrorNotice(thrown)>>, timers |-> 0]
         ELSE [calls |-> <<newPathOf(f)>>, promises |-> <<newPathOf(f)>>,
               notices |-> <<SlugifiedNotice>>, timers |-> titles]
    ELSE [calls |-> <<>>, promises |-> <<>>, notices |-> <<>>, timers |-> titles]

\* file.path as the host keeps it.
PathOf(f) ==
    IF dirPathOf(f) # <<>>
    THEN dirPathOf(f) \o <<"/">> \o f.basename \o extensionOf(f)
    ELSE f.basename \o extensionOf(f)

\* The file after the host moved it to path: folder and extension are those
\* of the path handleRename composed, the base name is what lies between.
MovedFile(f, path) ==
    LET skip == IF dirPathOf(f) # <<>> THEN Len(dirPathOf(f)) + 1 ELSE 0
    IN  [f EXCEPT !.basename =
            SubSeq(path, skip + 1, Len(path) - Len(extensionOf(f)))]

\* The handler runs on f for the event ev; the queue of promises it adds to
\* is queue.
Handle(ev, f, queue) ==
    \E thrown \in Messages \cup {""} :
        LET did == handleRename(f, thrown)
        IN  /\ thrown # "" => did.calls # <<>>
            /\ Len(queue) + Len(did.promises) <= MaxPending
            /\ colorTimers + did.timers <= MaxTimers
            /\ run' = [event |-> ev, calls |-> did.calls,
                       notices |-> did.notices,
                       message |-> thrown, escaped |-> FALSE]
            /\ pending' = queue \o did.promises
            /\ colorTimers' = colorTimers + did.timers

RenameInit ==
    /\ file \in [parent : Folders, basename : BaseNames, extension : Extensions]
    /\ userEvent = TRUE
    /\ byPlugin = FALSE
    /\ pending = <<>>
    /\ run = NoRun
    /\ titles = 0          \* the file explorer shows no title element
    /\ colorTimers = 0
    /\ SlugIdle
    /\ ViewIdle
    /\ ObsIdle
    /\ loaded = TRUE

\* vault.on("rename", this.handleRename), for the name the user gave.
OnRename ==
    /\ userEvent
    /\ userEvent' = FALSE
    /\ Handle("rename", file, pending)
    /\ UNCHANGED <<file, byPlugin, titles, slugVars, loaded, viewVars, obsVars>>

\* vault.on("modify", file => this.handleRename(file, file.path))
OnModify ==
    /\ Handle("modify", file, pending)
    /\ UNCHANGED <<file, userEvent, byPlugin, titles, slugVars, loaded, viewVars, obsVars>>

\* The oldest renameFile promise resolves: the host has moved the file (to a
\* path that was free) and raises the vault's rename event, which runs
\* handleRename on the moved file.
MoveSucceeds ==
    /\ pending # <<>>
    /\ Head(pending) # PathOf(file)
    /\ file' = MovedFile(file, Head(pending))
    /\ byPlugin' = TRUE
    /\ Handle("rename", file', Tail(pending))
    /\ UNCHANGED <<userEvent, titles, slugVars, loaded, viewVars, obsVars>>

\* The oldest renameFile promise rejects.  handleRename returned long ago and
\* did not keep the promise: no code of the plugin receives the rejection.
MoveFails ==
    /\ pending # <<>>
    /\ \E m \in Messages :
          run' = [event |-> "rejection", calls |-> <<>>, notices |-> <<>>,
                  message |-> m, escaped |-> TRUE]
    /\ pending' = Tail(pending)
    /\ UNCHANGED <<file, userEvent, byPlugin, domVars, slugVars, loaded, viewVars, obsVars>>

Next == OnRename \/ OnModify \/ MoveSucceeds \/ MoveFails

Spec == RenameInit /\ [][Next]_vars

HandlerRan == run.event \in {"rename", "modify"}

\* C3: a run of handleRename (from the rename or the modify event) on a file
\* whose base name is a valid slug calls renameFile never and shows no "File
\* name slugified" notice, whatever the folder and the extension.
NoOpOnValidSlug ==
    (HandlerRan /\ isValidSlug(file.basename))
        => (run.calls = <<>> /\ SlugifiedNotice \notin Range(run.notices))

\* The modify event ran the handler on a valid slug with a dot, in a folder
\* and with an extension.
NoOpOnValidSlugWitness ==
    /\ run.event = "modify"
    /\ file.basename = <<"a", ".">>
    /\ file.parent.exists /\ file.parent.path # <<>>
    /\ file.extension # <<>>
    /\ run.calls = <<>>

\* The path C4 states: directory + "/" + slug + extension, or slug +
\* extension when the directory is empty.
ClaimedPath(directory, slug, ext) ==
    (IF directory # <<>> THEN directory \o <<"/">> ELSE <<>>)
        \o slug
        \o (IF ext # <<>> THEN <<".">> \o ext ELSE <<>>)

\* C4: a run of handleRename on a non-empty base name that is no valid slug
\* requests exactly the path directory + "/" + slugify(basename) + extension
\* (slugify(basename) + extension for an empty directory): the path begins
\* with the file's directory and ends with its extension, both unchanged.
RenameTargetComposed ==
    (HandlerRan /\ file.basename # <<>> /\ ~isValidSlug(file.basename))
        => LET directory == IF file.parent.exists THEN file.parent.path ELSE <<>>
               target    == run.calls[1]
               dirLen    == IF directory # <<>> THEN Len(directory) + 1 ELSE 0
               extLen    == IF file.extension # <<>>
                            THEN Len(file.extension) + 1 ELSE 0
           IN  /\ Len(run.calls) = 1
               /\ target = ClaimedPath(directory, slugify(file.basename),
                                       file.extension)
               /\ directory # <<>> =>
                     SubSeq(target, 1, dirLen) = directory \o <<"/">>
               /\ file.extension # <<>> =>
                     SubSeq(target, Len(target) - extLen + 1, Len(target))
                         = <<".">> \o file.extension
               /\ SubSeq(target, dirLen + 1, Len(target) - extLen)
                     = slugify(file.basename)

\* The handler requested notes/a-a.md for the file "U+00C1 a".md of folder n.
RenameTargetWitness ==
    /\ run.event = "rename"
    /\ ~byPlugin
    /\ file.basename = <<"U+00C1", " ">> \/ file.basename = <<"U+00C1", "?">>
    /\ file.parent.exists /\ file.parent.path = <<"n">>
    /\ file.extension = <<"m", "d">>
    /\ run.calls = << <<"n", "/", "a", ".", "m", "d">> >>

\* C5: whenever the move requested by handleRename fails, also after the
\* handler has returned, the handler catches the failure and a notice with the
\* failure's message is shown; the failure does not escape.
MoveFailureSurfaced ==
    run.message # ""
        => (ErrorNotice(run.message) \in Range(run.notices) /\ ~run.escaped)

\* C10: once a move requested by handleRename has given the file its name,
\* a run of handleRename on that file (from the rename event of the move or a
\* later modify event) requests no rename and shows no "File name slugified".
RenameConverges ==
    (byPlugin /\ HandlerRan)
        => (run.calls = <<>> /\ SlugifiedNotice \notin Range(run.notices))

(***************************************************************************)
(* The ownership view-mode arbiter                                         *)
(***************************************************************************)
Files == 1..MaxFiles

\* The values os.userInfo().username gives, and the fallback of onload.
Users == {"alice", "unknown"}

\* What metadataCache.getFileCache(file) can return: null, a cache without
\* front-matter, front-matter without an owner field, and front-matter whose
\* owner is the empty string or a name.
CacheValues ==
    {NoCache,
     [cached |-> TRUE, frontmatter |-> FALSE, hasOwner |-> FALSE, owner |-> ""],
     [cached |-> TRUE, frontmatter |-> TRUE, hasOwner |-> FALSE, owner |-> ""],
     [cached |-> TRUE, frontmatter |-> TRUE, hasOwner |-> TRUE, owner |-> ""],
     [cached |-> TRUE, frontmatter |-> TRUE, hasOwner |-> TRUE, owner |-> "alice"],
     [cached |-> TRUE, frontmatter |-> TRUE, hasOwner |-> TRUE, owner |-> "bob"]}

\* The modes of a markdown view; "none" is the mode field of the state of a
\* view that is no markdown view (the empty view of a closed tab).
Modes == {"source", "preview"}

OwnerNotice(owner) == <<"Document owned by '", owner, "' - opened in Reading View">>

\* The condition without its comparison to the current user.
isOwnedByAnyone(cache) == cache.cached /\ cache.frontmatter /\ cache.hasOwner

\* frontmatter && frontmatter.owner && frontmatter.owner !== this.currentUser,
\* with frontmatter = cache?.frontmatter; an absent or empty owner is falsy.
isOwnedByOther(cache) ==
    LET hasFrontmatter == cache.cached /\ cache.frontmatter
        ownerTruthy    == cache.hasOwner /\ cache.owner # ""
    IN  hasFrontmatter /\ ownerTruthy /\ cache.owner # currentUser

\* A condition that asks for the write on every run.
modeDiffersAlways(currentState, targetMode) == TRUE

\* currentState && currentState.mode !== targetMode; getState() of a view
\* always returns an object.
modeDiffers(currentState, targetMode) == currentState.mode # targetMode

\* One run of checkAndSetViewMode(leaf, f) when the cache answers with cache.
checkAndSetViewMode(f, cache) ==
    LET owned      == isOwnedByOther(cache)
        targetMode == IF owned THEN "preview" ELSE "source"
        change     == modeDiffers([mode |-> leaf.mode], targetMode)
    IN  [target  |-> targetMode,
         writes  |-> IF change THEN <<[file |-> f, mode |-> targetMode]>> ELSE <<>>,
         notices |-> IF change /\ owned THEN <<OwnerNotice(cache.owner)>> ELSE <<>>]

ViewInit ==
    /\ loaded = TRUE
    /\ currentUser \in Users
    /\ leaf = [file |-> NoFile, mode |-> "none"]
    /\ viewTimers = <<>>
    /\ viewWrites = <<>>
    /\ check = NoCheck
    /\ SlugIdle
    /\ RenameIdle
    /\ DomIdle
    /\ ObsIdle

\* The user opens file f in the leaf, in mode m.
OpenFile ==
    /\ \E f \in Files, m \in Modes : leaf' = [file |-> f, mode |-> m]
    /\ UNCHANGED <<currentUser, viewTimers, viewWrites, check, loaded,
                   slugVars, renameVars, domVars, obsVars>>

\* The user closes the file: the leaf shows a view that is no markdown view.
CloseFile ==
    /\ leaf.file # NoFile
    /\ leaf' = [file |-> NoFile, mode |-> "none"]
    /\ UNCHANGED <<currentUser, viewTimers, viewWrites, check, loaded,
                   slugVars, renameVars, domVars, obsVars>>

\* workspace.on('active-leaf-change', this.handleActiveLeafChange): returns
\* early unless the leaf shows a markdown view with a file, else schedules
\* checkAndSetViewMode(leaf, file) for that file.
ActiveLeafChange ==
    /\ loaded
    /\ Len(viewTimers) < MaxViewTimers
    /\ viewTimers' = IF leaf.file # NoFile
                     THEN Append(viewTimers, leaf.file)
                     ELSE viewTimers
    /\ UNCHANGED <<currentUser, leaf, viewWrites, check, loaded,
                   slugVars, renameVars, domVars, obsVars>>

\* The oldest scheduled callback fires, the plugin enabled or not: it runs
\* checkAndSetViewMode on the leaf as it is now and the file captured then.
TimerFires ==
    /\ viewTimers # <<>>
    /\ \E cache \in CacheValues :
          LET did == checkAndSetViewMode(Head(viewTimers), cache)
          IN  /\ Len(viewWrites) + Len(did.writes) <= MaxViewWrites
              /\ check' = [ran |-> TRUE, enabled |-> loaded,
                           captured |-> Head(viewTimers),
                           shown |-> leaf.file, observed |-> leaf.mode,
                           cache |-> cache, target |-> did.target,
                           writes |-> did.writes, notices |-> did.notices]
              /\ viewWrites' = viewWrites \o did.writes
    /\ viewTimers' = Tail(viewTimers)
    /\ UNCHANGED <<currentUser, leaf, loaded, slugVars, renameVars, domVars, obsVars>>

\* The host applies the oldest view state given to leaf.setViewState.
ViewStateApplied ==
    /\ viewWrites # <<>>
    /\ leaf' = Head(viewWrites)
    /\ viewWrites' = Tail(viewWrites)
    /\ UNCHANGED <<currentUser, viewTimers, check, loaded,
                   slugVars, renameVars, domVars, obsVars>>

\* The plugin is disabled: registerEvent's handlers are detached; the
\* callbacks given to setTimeout stay scheduled.
ViewUnload ==
    /\ loaded
    /\ loaded' = FALSE
    /\ UNCHANGED <<viewVars, slugVars, renameVars, domVars, obsVars>>

ViewNext ==
    \/ OpenFile
    \/ CloseFile
    \/ ActiveLeafChange
    \/ TimerFires
    \/ ViewStateApplied
    \/ ViewUnload

SpecView == ViewInit /\ [][ViewNext]_vars

\* C6: the target mode is "preview" exactly when the front-matter has an owner
\* that is present, not empty and not the current user; a missing cache,
\* missing front-matter, a missing or empty owner and an owner equal to the
\* current user all give "source".
TargetModeByOwner ==
    check.ran =>
        /\ check.target \in Modes
        /\ check.target = "preview" <=>
              /\ check.cache.cached
              /\ check.cache.frontmatter
              /\ check.cache.hasOwner
              /\ check.cache.owner # ""
              /\ check.cache.owner # currentUser

\* A check by alice of a file whose owner field names bob: mode "preview".
TargetModeWitness ==
    /\ check.ran
    /\ currentUser = "alice"
    /\ check.cache.hasOwner
    /\ check.cache.owner = "bob"
    /\ check.target = "preview"

\* C7: a run of checkAndSetViewMode calls setViewState (with the target mode)
\* exactly when the mode observed on the view differs from the target mode;
\* with equal modes it writes nothing and shows no notice; the "Document owned
\* by" notice comes only with a write whose target is "preview".
WriteOnlyOnChange ==
    check.ran =>
        /\ check.writes # <<>> <=> check.observed # check.target
        /\ check.writes # <<>> =>
              check.writes = <<[file |-> check.captured, mode |-> check.target]>>
        /\ check.observed = check.target => check.notices = <<>>
        /\ check.notices # <<>> =>
              /\ check.writes # <<>>
              /\ check.target = "preview"
              /\ check.notices = <<OwnerNotice(check.cache.owner)>>

\* A check left a view alone that was already in reading mode for a file of
\* another owner.
WriteOnlyOnChangeWitness ==
    /\ check.ran
    /\ check.observed = "preview"
    /\ check.target = "preview"
    /\ check.writes = <<>>
    /\ check.notices = <<>>

\* C9: a scheduled check that fires when its target is gone (the leaf shows
\* another file than the one captured at scheduling time, the file was closed,
\* or the plugin was disabled meanwhile) writes no view state and shows no
\* notice.
StaleCheckNoOp ==
    (check.ran /\ (check.shown # check.captured \/ ~check.enabled))
        => (check.writes = <<>> /\ check.notices = <<>>)

(***************************************************************************)
(* The file-explorer observer                                              *)
(***************************************************************************)
Connected == {i \in 1..Len(observers) : observers[i]}

\* handleLayoutChange without the test of this.observer.
handleLayoutChangeAlwaysSetup ==
    IF container
    THEN [observer  |-> Len(observers) + 1,
          observers |-> Append(observers, TRUE),
          timers    |-> titles]
    ELSE IF observer # 0
    THEN [observer  |-> 0,
          observers |-> [observers EXCEPT ![observer] = FALSE],
          timers    |-> 0]
    ELSE [observer |-> observer, observers |-> observers, timers |-> 0]

\* One run of handleLayoutChange.  setupFileExplorerObserver creates an
\* observer and has it observe the container, which is present when it is
\* called; colorizeFileNames schedules one callback per title element.
handleLayoutChange ==
    IF container
    THEN IF observer = 0
         THEN [observer  |-> Len(observers) + 1,
               observers |-> Append(observers, TRUE),
               timers    |-> titles]
         ELSE [observer |-> observer, observers |-> observers, timers |-> titles]
    ELSE IF observer # 0
    THEN [observer  |-> 0,
          observers |-> [observers EXCEPT ![observer] = FALSE],
          timers    |-> 0]
    ELSE [observer |-> observer, observers |-> observers, timers |-> 0]

LayoutChange ==
    LET did == handleLayoutChange
    IN  /\ Len(did.observers) <= MaxObservers
        /\ colorTimers + did.timers <= MaxTimers
        /\ observer' = did.observer
        /\ observers' = did.observers
        /\ colorTimers' = colorTimers + did.timers

\* The state onload leaves: the handlers registered, the style element added,
\* the layout not ready yet.
ObsInit ==
    /\ loaded = TRUE
    /\ container \in BOOLEAN
    /\ observer = 0
    /\ observers = <<>>
    /\ layoutWait = TRUE
    /\ styleEls = 1
    /\ titles = 0
    /\ colorTimers = 0
    /\ SlugIdle
    /\ RenameIdle
    /\ ViewIdle

\* workspace.onLayoutReady(this.handleLayoutChange): runs once, whether or
\* not the plugin is still enabled by then.
LayoutReady ==
    /\ layoutWait
    /\ layoutWait' = FALSE
    /\ LayoutChange
    /\ UNCHANGED <<container, styleEls, titles, loaded,
                   slugVars, renameVars, viewVars>>

\* workspace.on("resize", this.handleLayoutChange)
Resize ==
    /\ loaded
    /\ LayoutChange
    /\ UNCHANGED <<container, layoutWait, styleEls, titles, loaded,
                   slugVars, renameVars, viewVars>>

\* The file explorer is shown: the container enters the document.
ShowExplorer ==
    /\ ~container
    /\ container' = TRUE
    /\ UNCHANGED <<observer, observers, layoutWait, styleEls, domVars, loaded,
                   slugVars, renameVars, viewVars>>

\* The file explorer is closed: the container and its title elements leave
\* the document.
HideExplorer ==
    /\ container
    /\ container' = FALSE
    /\ titles' = 0
    /\ UNCHANGED <<observer, observers, layoutWait, styleEls, colorTimers,
                   loaded, slugVars, renameVars, viewVars>>

\* A title element is added under the container: the callback of every
\* observing MutationObserver schedules colorizeFileName for it.
AddTitle ==
    /\ container
    /\ titles < MaxTitles
    /\ colorTimers + Cardinality(Connected) <= MaxTimers
    /\ titles' = titles + 1
    /\ colorTimers' = colorTimers + Cardinality(Connected)
    /\ UNCHANGED <<obsVars, loaded, slugVars, renameVars, viewVars>>

\* A scheduled colorizeFileName callback fires.
ColorizeFires ==
    /\ colorTimers > 0
    /\ colorTimers' = colorTimers - 1
    /\ UNCHANGED <<obsVars, titles, loaded, slugVars, renameVars, viewVars>>

\* onunload: disconnects the held observer (the handle keeps it) and removes
\* the style element.
Unload ==
    /\ loaded
    /\ loaded' = FALSE
    /\ observers' = IF observer # 0
                    THEN [observers EXCEPT ![observer] = FALSE]
                    ELSE observers
    /\ styleEls' = 0
    /\ UNCHANGED <<container, observer, layoutWait, domVars,
                   slugVars, renameVars, viewVars>>

ObsNext ==
    \/ LayoutReady
    \/ Resize
    \/ ShowExplorer
    \/ HideExplorer
    \/ AddTitle
    \/ ColorizeFires
    \/ Unload

SpecObs == ObsInit /\ [][ObsNext]_vars

\* C8: after any sequence of layout-ready, resize and unload events, with the
\* container present or absent, at most one MutationObserver is observing.
AtMostOneObserver == Cardinality(Connected) <= 1

\* A second observer is observing after the first was disconnected when the
\* container had gone.
AtMostOneObserverWitness ==
    /\ Len(observers) >= 2
    /\ ~observers[1]
    /\ observers[2]
    /\ observer = 2

====
